---- MODULE Spec2Model ----
(***************************************************************************)
(* A model of cirrus-geo's payload orchestration                           *)
(* (src/src/cirrus/lib/process_payload.py): the launch of one              *)
(* ProcessPayload (ProcessPayload.__call__), the batch orchestration of    *)
(* ProcessPayloads.process, and the chaining of ProcessPayload             *)
(* .next_payloads.                                                         *)
(***************************************************************************)
EXTENDS Integers, Sequences, FiniteSets, TLC

(***************************************************************************)
(* Bounds of the model.                                                    *)
(***************************************************************************)
\* the longest input sequence handed to one ProcessPayloads.process call
MaxBatch == 2
\* the longest process sequence of a payload that is chained
MaxSteps == 3
\* the most entries of a second step that is a sequence of steps
MaxFanout == 2
\* the most features of a payload that is chained
MaxFeatures == 3

(***************************************************************************)
(* Values.                                                                 *)
(***************************************************************************)
\* payload identities ("<collections>/workflow-<name>/<items>")
Ids == {"a", "b"}

\* states.get(id) when the state store holds no record of the identity
None == "None"

\* cirrus.lib.enums.StateEnum
StateEnum == {"PROCESSING", "CLAIMED", "COMPLETED", "FAILED", "ABORTED", "INVALID"}

\* the invocation running ProcessPayloads.process, and two concurrent
\* invocations that each launch one payload with ProcessPayload.__call__
Orch == 0
Racers == {1, 2}
Procs == {Orch} \cup Racers

\* what a call to an external service does: it returns, or it raises a
\* botocore ClientError with one of the codes the handler tells apart
\* (ClientError stands for every other code), or another exception
ConditionalCheckFailed == "ConditionalCheckFailedException"
StateMachineDoesNotExist == "StateMachineDoesNotExist"
OtherClientError == "ClientError"
OtherException == "Exception"
Ok == "ok"

VARIABLES
    statedb,      \* the state store: identity -> StateEnum or None
    s3blob,       \* how often s3://<bucket>/<id>/input.json has been written
    executions,   \* identity -> number of executions the engine has started
    payloads,     \* invocation -> the sequence of payloads it works on
    replace,      \* the replace argument of process()
    states,       \* the orchestrator's states, as get_states() returned them
    i,            \* invocation -> index of the payload it is working on
    pc,           \* invocation -> where it is in its code
    exc,          \* invocation -> the exception __call__ is handling
    payload_ids,  \* process()'s started / skipped / dropped / failed lists
    result,       \* invocation -> how its call ended
    calls,        \* invocation -> the calls it has issued, in order
    seen,         \* invocation -> index -> the record state its claim met
    conditional,  \* the calls the services may fail with a conditional check
    earlier,      \* the process() runs that raised, before the redrive under way
    heap,         \* the objects of the chained payloads: address -> cell
    self,         \* the address of the payload next_payloads is called on
    gen,          \* the generator next_payloads returned: its position
    yielded,      \* the addresses of the payloads the generator has yielded
    self0,        \* the items of self when the generator was made
    yielded0,     \* the items of each yielded payload when it was yielded
    changed,      \* the yielded payloads their consumer has changed since
    raw,          \* the mapping ProcessPayload(...) is constructed from
    set_id_if_missing,  \* the argument of ProcessPayload(...)
    bpc,          \* where the construction is: "new", "built", "failed"
    built,        \* the items of the payload constructed
    raised,       \* method -> the exception its last call raised, if any
    id0,          \* the id of the payload when its constructor returned
    set_id_calls, \* the number of set_id calls made on the payload since
    got,          \* what get_payload returned
    env,          \* the environment and encoding get_payload met
    blobs,        \* the uploads to the blob store, in order: url and body
    handler,      \* the Batch Accumulator: its kind, threshold, extra arguments
    buffer,       \* the items the accumulator holds
    sink,         \* the invocations of the sink, in order: what each was passed
    adds,         \* the Add calls made, in order: item, attributes, outcome
    scope,        \* the scope the accumulator was acquired in: open or closed
    last_op,      \* the last operation on the accumulator
    flushes       \* the Execute calls made by the caller and how many of
                  \* all flushes met an empty buffer

launchVars == <<statedb, s3blob, executions, payloads, replace, states, i, pc,
                exc, payload_ids, result, calls, seen, conditional,
                earlier>>

chainVars == <<heap, self, gen, yielded, self0, yielded0, changed>>

buildVars == <<raw, set_id_if_missing, bpc, built, raised, id0, set_id_calls,
               got, env, blobs>>

vars == <<statedb, s3blob, executions, payloads, replace, states, i, pc, exc,
          payload_ids, result, calls, seen, conditional, earlier, heap, self, gen, yielded, self0,
          yielded0, changed, raw, set_id_if_missing, bpc, built, raised, id0,
          set_id_calls, got, env, blobs, handler, buffer, sink, adds, scope,
          last_op, flushes>>

batchVars == <<handler, buffer, sink, adds, scope, last_op, flushes>>

\* what the actions of one part of the program leave alone
offLaunch == <<chainVars, buildVars, batchVars, conditional, earlier>>
offChain == <<launchVars, buildVars, batchVars>>
offBuild == <<launchVars, chainVars, batchVars>>
offBatch == <<launchVars, chainVars, buildVars>>

(***************************************************************************)
(* Helpers.                                                                *)
(***************************************************************************)
Range(s) == {s[k] : k \in 1..Len(s)}

SeqsUpTo(S, n) == UNION {[1..k -> S] : k \in 1..n}

Payload == [id : Ids, replace : BOOLEAN]

\* the payload invocation p is working on
Cur(p) == payloads[p][i[p]]

\* a call that is passed no state
NoState == "(no state)"

\* a call invocation p issues for its current payload, and how it ended
Call(op, p, r) ==
    [op |-> op, id |-> Cur(p).id, at |-> i[p], r |-> r, state |-> NoState]

\* wfem.skipping(payload["id"], state, ...)
CallSkipping(p, state) == [Call("skipping", p, Ok) EXCEPT !.state = state]

(***************************************************************************)
(* The state store (cirrus.lib.statedb / cirrus.lib.events).               *)
(***************************************************************************)
\* claim_processing's condition: the claim overwrites every state other
\* than PROCESSING and CLAIMED, and fails its conditional check on these
InFlight(state) == state \in {"PROCESSING", "CLAIMED"}

(***************************************************************************)
(* ProcessPayload.__call__: the exception handlers.                        *)
(***************************************************************************)
\* (a variant of HandlerRecords: a failed conditional check is recorded as a
\* failure)
HandlerRecordsConditionalAsFailed(e) ==
    CASE e = ConditionalCheckFailed -> "failed"
      [] e = StateMachineDoesNotExist -> "failed"
      [] e = OtherClientError -> "none"
      [] e = OtherException -> "failed"

\* the event the handler records for exception e ("none": it records none)
HandlerRecords(e) ==
    CASE e = ConditionalCheckFailed -> "skipping"
      [] e = StateMachineDoesNotExist -> "failed"
      [] e = OtherClientError -> "none"
      [] e = OtherException -> "failed"

\* (a variant of HandlerEnds: a failed conditional check is re-raised)
HandlerEndsConditionalRaised(e) ==
    CASE e = ConditionalCheckFailed -> "ClientError"
      [] e = StateMachineDoesNotExist -> "TerminalError"
      [] e = OtherClientError -> "ClientError"
      [] e = OtherException -> "Exception"

\* (a variant of HandlerEnds: every ClientError is terminal)
HandlerEndsClientErrorTerminal(e) ==
    CASE e = ConditionalCheckFailed -> "None"
      [] e = StateMachineDoesNotExist -> "TerminalError"
      [] e = OtherClientError -> "TerminalError"
      [] e = OtherException -> "Exception"

\* how __call__ ends after handling e: it returns None, or it raises
HandlerEnds(e) ==
    CASE e = ConditionalCheckFailed -> "None"
      [] e = StateMachineDoesNotExist -> "TerminalError"
      [] e = OtherClientError -> "ClientError"
      [] e = OtherException -> "Exception"

(***************************************************************************)
(* ProcessPayloads.process: the decision taken for one payload.            *)
(***************************************************************************)
\* (a variant of Duplicated: the failed list is not looked at)
DuplicatedIgnoresFailed(id, pids) ==
    \/ id \in Range(pids.started)
    \/ id \in Range(pids.skipped)

\* (a variant of Duplicated: the skipped list is not looked at)
DuplicatedIgnoresSkipped(id, pids) ==
    \/ id \in Range(pids.started)
    \/ id \in Range(pids.failed)

\* the identity is already in one of started, skipped, failed
Duplicated(id, pids) ==
    \/ id \in Range(pids.started)
    \/ id \in Range(pids.skipped)
    \/ id \in Range(pids.failed)

\* (a variant of LaunchWanted: an INVALID record is launched again too)
LaunchWantedAlsoInvalid(state, _replace) ==
    \/ state = "FAILED"
    \/ state = "ABORTED"
    \/ state = "INVALID"
    \/ state = None
    \/ _replace

\* (a variant of LaunchWanted: a FAILED record is not retried)
LaunchWantedNotFailed(state, _replace) ==
    \/ state = "ABORTED"
    \/ state = None
    \/ _replace

\* (a variant of LaunchWanted: the replace flag is not looked at)
LaunchWantedIgnoresReplace(state, _replace) ==
    \/ state = "FAILED"
    \/ state = "ABORTED"
    \/ state = None

\* the state evaluation lets the payload be launched
LaunchWanted(state, _replace) ==
    \/ state = "FAILED"
    \/ state = "ABORTED"
    \/ state = None
    \/ _replace

\* _replace = replace or payload.process.get("replace", False)
EffectiveReplace(payload) == replace \/ payload.replace

\* what process() appends to for the way a launch ended
ListFor(out) ==
    CASE out = "id" -> "started"
      [] out = "None" -> "skipped"
      [] out = "TerminalError" -> "failed"
      [] OTHER -> "raised"

\* __call__ of invocation p ends with out: a direct call is over; the
\* orchestrator files the identity and goes on with the next payload, or
\* process() is left by the exception it does not catch
Finish(p, out) ==
    IF p \in Racers
    THEN /\ pc' = [pc EXCEPT ![p] = "done"]
         /\ result' = [result EXCEPT ![p] = out]
         /\ UNCHANGED <<i, payload_ids>>
    ELSE IF ListFor(out) = "raised"
    THEN /\ pc' = [pc EXCEPT ![p] = "done"]
         /\ result' = [result EXCEPT ![p] = out]
         /\ UNCHANGED <<i, payload_ids>>
    ELSE /\ pc' = [pc EXCEPT ![p] = "loop"]
         /\ payload_ids' = [payload_ids EXCEPT
                               ![ListFor(out)] = Append(@, Cur(p).id)]
         /\ i' = [i EXCEPT ![p] = @ + 1]
         /\ UNCHANGED result

\* a call to an external service raises e: control goes to the handlers
Raise(p, e) ==
    /\ pc' = [pc EXCEPT ![p] = "except"]
    /\ exc' = [exc EXCEPT ![p] = e]
    /\ UNCHANGED <<i, payload_ids, result>>

(***************************************************************************)
(* ProcessPayloads.process.                                                *)
(***************************************************************************)
\* states = self.get_states(): one batched lookup of the payloads' ids
GetStates ==
    /\ pc[Orch] = "get_states"
    /\ states' = [id \in Ids |->
                    IF id \in {payloads[Orch][k].id : k \in 1..Len(payloads[Orch])}
                    THEN statedb[id] ELSE None]
    /\ pc' = [pc EXCEPT ![Orch] = "loop"]
    /\ UNCHANGED <<statedb, s3blob, executions, payloads, replace, i, exc,
                   payload_ids, result, calls, seen>>
    /\ UNCHANGED offLaunch

\* the identity is already in started, skipped or failed
Dropped ==
    /\ pc[Orch] = "loop"
    /\ i[Orch] <= Len(payloads[Orch])
    /\ Duplicated(Cur(Orch).id, payload_ids)
    /\ calls' = [calls EXCEPT ![Orch] = Append(@, Call("duplicated", Orch, Ok))]
    /\ payload_ids' = [payload_ids EXCEPT !.dropped = Append(@, Cur(Orch).id)]
    /\ i' = [i EXCEPT ![Orch] = @ + 1]
    /\ UNCHANGED <<statedb, s3blob, executions, payloads, replace, states, pc,
                   exc, result, seen>>
    /\ UNCHANGED offLaunch

\* payload_id = payload(wfem)
Launch ==
    /\ pc[Orch] = "loop"
    /\ i[Orch] <= Len(payloads[Orch])
    /\ ~Duplicated(Cur(Orch).id, payload_ids)
    /\ LaunchWanted(states[Cur(Orch).id], EffectiveReplace(Cur(Orch)))
    /\ pc' = [pc EXCEPT ![Orch] = "upload_json"]
    /\ UNCHANGED <<statedb, s3blob, executions, payloads, replace, states, i,
                   exc, payload_ids, result, calls, seen>>
    /\ UNCHANGED offLaunch

\* the input is already in an in-flight or done state
Skipped ==
    /\ pc[Orch] = "loop"
    /\ i[Orch] <= Len(payloads[Orch])
    /\ ~Duplicated(Cur(Orch).id, payload_ids)
    /\ ~LaunchWanted(states[Cur(Orch).id], EffectiveReplace(Cur(Orch)))
    /\ calls' = [calls EXCEPT
                    ![Orch] = Append(@, CallSkipping(Orch, states[Cur(Orch).id]))]
    /\ payload_ids' = [payload_ids EXCEPT !.skipped = Append(@, Cur(Orch).id)]
    /\ i' = [i EXCEPT ![Orch] = @ + 1]
    /\ UNCHANGED <<statedb, s3blob, executions, payloads, replace, states, pc,
                   exc, result, seen>>
    /\ UNCHANGED offLaunch

\* return payload_ids
Return ==
    /\ pc[Orch] = "loop"
    /\ i[Orch] > Len(payloads[Orch])
    /\ pc' = [pc EXCEPT ![Orch] = "done"]
    /\ result' = [result EXCEPT ![Orch] = "returned"]
    /\ UNCHANGED <<statedb, s3blob, executions, payloads, replace, states, i,
                   exc, payload_ids, calls, seen>>
    /\ UNCHANGED offLaunch

(***************************************************************************)
(* ProcessPayload.__call__, one action for each call it makes.             *)
(***************************************************************************)
\* the conditional-check failure, if the call op may end with it
ConditionalOf(op) == IF op \in conditional THEN {ConditionalCheckFailed} ELSE {}

\* (a variant of UploadJson: the call returns and nothing is stored)
UploadJsonStoresNothing(p) ==
    /\ pc[p] = "upload_json"
    /\ calls' = [calls EXCEPT ![p] = Append(@, Call("upload_json", p, Ok))]
    /\ pc' = [pc EXCEPT ![p] = "claim_processing"]
    /\ UNCHANGED <<statedb, s3blob, executions, payloads, replace, states, i,
                   exc, payload_ids, result, seen>>
    /\ UNCHANGED offLaunch

\* s3().upload_json(self, url)
UploadJson(p) ==
    /\ pc[p] = "upload_json"
    /\ \E r \in {Ok, OtherClientError, OtherException}
                 \cup ConditionalOf("upload_json") :
          /\ calls' = [calls EXCEPT ![p] = Append(@, Call("upload_json", p, r))]
          /\ IF r = Ok
             THEN /\ s3blob' = [s3blob EXCEPT ![Cur(p).id] = @ + 1]
                  /\ pc' = [pc EXCEPT ![p] = "claim_processing"]
                  /\ UNCHANGED <<i, payload_ids, result, exc>>
             ELSE /\ Raise(p, r)
                  /\ UNCHANGED s3blob
    /\ UNCHANGED <<statedb, executions, payloads, replace, states, seen>>
    /\ UNCHANGED offLaunch

\* what claim_processing does on a record in state `state`, when the store
\* answers: the conditional check fails on an in-flight record
ClaimAnswer(state) == IF InFlight(state) THEN ConditionalCheckFailed ELSE Ok

\* execution_name = wfem.claim_processing(self["id"], ...)
ClaimProcessing(p) ==
    /\ pc[p] = "claim_processing"
    /\ seen' = [seen EXCEPT ![p][i[p]] = statedb[Cur(p).id]]
    /\ \E r \in {ClaimAnswer(statedb[Cur(p).id]), OtherClientError, OtherException} :
          /\ calls' = [calls EXCEPT
                          ![p] = Append(@, Call("claim_processing", p, r))]
          /\ IF r = Ok
             THEN /\ statedb' = [statedb EXCEPT ![Cur(p).id] = "CLAIMED"]
                  /\ pc' = [pc EXCEPT ![p] = "start_execution"]
                  /\ UNCHANGED <<i, payload_ids, result, exc>>
             ELSE /\ Raise(p, r)
                  /\ UNCHANGED statedb
    /\ UNCHANGED <<s3blob, executions, payloads, replace, states>>
    /\ UNCHANGED offLaunch

\* get_client("stepfunctions").start_execution(...)
StartExecution(p) ==
    /\ pc[p] = "start_execution"
    /\ \E r \in {Ok, StateMachineDoesNotExist, OtherClientError, OtherException} :
          /\ calls' = [calls EXCEPT
                          ![p] = Append(@, Call("start_execution", p, r))]
          /\ IF r = Ok
             THEN /\ executions' = [executions EXCEPT ![Cur(p).id] = @ + 1]
                  /\ pc' = [pc EXCEPT ![p] = "started_processing"]
                  /\ UNCHANGED <<i, payload_ids, result, exc>>
             ELSE /\ Raise(p, r)
                  /\ UNCHANGED executions
    /\ UNCHANGED <<statedb, s3blob, payloads, replace, states, seen>>
    /\ UNCHANGED offLaunch

\* wfem.started_processing(self["id"], ...); return self["id"]
StartedProcessing(p) ==
    /\ pc[p] = "started_processing"
    /\ \E r \in {Ok, OtherClientError, OtherException}
                 \cup ConditionalOf("started_processing") :
          /\ calls' = [calls EXCEPT
                          ![p] = Append(@, Call("started_processing", p, r))]
          /\ IF r = Ok
             THEN /\ statedb' = [statedb EXCEPT ![Cur(p).id] = "PROCESSING"]
                  /\ Finish(p, "id")
                  /\ UNCHANGED exc
             ELSE /\ Raise(p, r)
                  /\ UNCHANGED statedb
    /\ UNCHANGED <<s3blob, executions, payloads, replace, states, seen>>
    /\ UNCHANGED offLaunch

\* except ClientError as e: ... except Exception as e: ...
Except(p) ==
    /\ pc[p] = "except"
    /\ calls' = [calls EXCEPT ![p] =
                    IF HandlerRecords(exc[p]) = "none" THEN @
                    ELSE IF HandlerRecords(exc[p]) = "skipping"
                    THEN Append(@, CallSkipping(p, "PROCESSING"))
                    ELSE Append(@, Call(HandlerRecords(exc[p]), p, Ok))]
    /\ statedb' = [statedb EXCEPT ![Cur(p).id] =
                    IF HandlerRecords(exc[p]) = "failed" THEN "FAILED" ELSE @]
    /\ Finish(p, HandlerEnds(exc[p]))
    /\ UNCHANGED <<s3blob, executions, payloads, replace, states, exc, seen>>
    /\ UNCHANGED offLaunch

(***************************************************************************)
(* Other invocations.                                                      *)
(***************************************************************************)
\* an invocation outside the ones modelled claims an identity while
\* process() runs: its claim_processing succeeds, as the conditional check
\* allows (a claim made before the states are fetched is an initial state
\* of the store)
OtherClaim ==
    /\ pc[Orch] \notin {"get_states", "done"}
    /\ \E id \in Ids :
          /\ ~InFlight(statedb[id])
          /\ statedb' = [statedb EXCEPT ![id] = "CLAIMED"]
    /\ UNCHANGED <<s3blob, executions, payloads, replace, states, i, pc, exc,
                   payload_ids, result, calls, seen>>
    /\ UNCHANGED offLaunch

(***************************************************************************)
(* Spec: one ProcessPayloads.process call, the state store being written   *)
(* by other invocations too.                                               *)
(***************************************************************************)
\* no accumulator is in use
NoBatch ==
    /\ handler = [none |-> TRUE]
    /\ buffer = <<>>
    /\ sink = <<>>
    /\ adds = <<>>
    /\ scope = "idle"
    /\ last_op = "none"
    /\ flushes = [explicit |-> 0, empty |-> 0]

\* no payload is being constructed
NoBuild ==
    /\ raw = [none |-> TRUE]
    /\ set_id_if_missing = FALSE
    /\ bpc = "idle"
    /\ built = [none |-> TRUE]
    /\ raised = [m \in {"__init__", "set_id", "get_payload"} |-> Ok]
    /\ id0 = <<>>
    /\ set_id_calls = 0
    /\ got = [none |-> TRUE]
    /\ env = [none |-> TRUE]
    /\ blobs = <<>>

\* no payload is being chained
NoChain ==
    /\ heap = <<>>
    /\ self = 0
    /\ gen = [pc |-> "done", k |-> 0]
    /\ yielded = <<>>
    /\ self0 = <<>>
    /\ yielded0 = <<>>
    /\ changed = {}

InitCommon ==
    /\ statedb \in [Ids -> StateEnum \cup {None}]
    /\ s3blob = [id \in Ids |-> 0]
    /\ executions = [id \in Ids |-> 0]
    /\ states = [id \in Ids |-> None]
    /\ i = [p \in Procs |-> 1]
    /\ exc = [p \in Procs |-> Ok]
    /\ payload_ids = [started |-> <<>>, skipped |-> <<>>, dropped |-> <<>>,
                      failed |-> <<>>]
    /\ result = [p \in Procs |-> "running"]
    /\ calls = [p \in Procs |-> <<>>]
    /\ seen = [p \in Procs |-> [k \in 1..Len(payloads[p]) |-> "unset"]]
    /\ earlier = <<>>
    /\ NoChain
    /\ NoBuild
    /\ NoBatch

Init ==
    /\ \E batch \in SeqsUpTo(Payload, MaxBatch) :
          payloads = [p \in Procs |-> IF p = Orch THEN batch ELSE <<>>]
    /\ replace \in BOOLEAN
    /\ pc = [p \in Procs |-> IF p = Orch THEN "get_states" ELSE "idle"]
    /\ conditional = {"claim_processing"}
    /\ InitCommon

Next ==
    \/ GetStates
    \/ Dropped
    \/ Launch
    \/ Skipped
    \/ Return
    \/ UploadJson(Orch)
    \/ ClaimProcessing(Orch)
    \/ StartExecution(Orch)
    \/ StartedProcessing(Orch)
    \/ Except(Orch)
    \/ OtherClaim

Spec == Init /\ [][Next]_vars

(***************************************************************************)
(* SpecRedrive: process() alone on the state store, any of its calls to    *)
(* the store or to the bucket may fail a conditional check, and a batch    *)
(* whose process() raised is delivered again.                              *)
(***************************************************************************)
MaxRedrives == 1

\* the calls ProcessPayload.__call__ makes inside its try block that reach
\* a service able to answer with a conditional-check failure
ConditionalCalls == {"upload_json", "claim_processing", "started_processing"}

\* the exceptions process() lets through, after which the batch comes back
Redriven == {OtherClientError, OtherException}

\* the batch is delivered again: a new ProcessPayloads over the same
\* payloads (state_items is None) runs process() from its first line
Redrive ==
    /\ pc[Orch] = "done"
    /\ result[Orch] \in Redriven
    /\ Len(earlier) < MaxRedrives
    /\ earlier' = Append(earlier, [calls |-> calls[Orch], at |-> i[Orch],
                                   result |-> result[Orch]])
    /\ payload_ids' = [started |-> <<>>, skipped |-> <<>>, dropped |-> <<>>,
                       failed |-> <<>>]
    /\ states' = [id \in Ids |-> None]
    /\ i' = [i EXCEPT ![Orch] = 1]
    /\ pc' = [pc EXCEPT ![Orch] = "get_states"]
    /\ exc' = [exc EXCEPT ![Orch] = Ok]
    /\ result' = [result EXCEPT ![Orch] = "running"]
    /\ calls' = [calls EXCEPT ![Orch] = <<>>]
    /\ seen' = [seen EXCEPT ![Orch] =
                   [k \in 1..Len(payloads[Orch]) |-> "unset"]]
    /\ UNCHANGED <<statedb, s3blob, executions, payloads, replace, conditional>>
    /\ UNCHANGED <<chainVars, buildVars, batchVars>>

InitRedrive ==
    /\ \E batch \in SeqsUpTo(Payload, MaxBatch) :
          payloads = [p \in Procs |-> IF p = Orch THEN batch ELSE <<>>]
    /\ replace \in BOOLEAN
    /\ pc = [p \in Procs |-> IF p = Orch THEN "get_states" ELSE "idle"]
    /\ conditional = ConditionalCalls
    /\ InitCommon

NextRedrive ==
    \/ GetStates
    \/ Dropped
    \/ Launch
    \/ Skipped
    \/ Return
    \/ UploadJson(Orch)
    \/ ClaimProcessing(Orch)
    \/ StartExecution(Orch)
    \/ StartedProcessing(Orch)
    \/ Except(Orch)
    \/ Redrive

SpecRedrive == InitRedrive /\ [][NextRedrive]_vars

(***************************************************************************)
(* SpecRace: two invocations launch payloads of one identity concurrently. *)
(***************************************************************************)
InitRace ==
    /\ \E id \in Ids :
          payloads = [p \in Procs |->
                        IF p = Orch THEN <<>>
                        ELSE <<[id |-> id, replace |-> FALSE]>>]
    /\ replace = FALSE
    /\ pc = [p \in Procs |-> IF p = Orch THEN "idle" ELSE "upload_json"]
    /\ conditional = {"claim_processing"}
    /\ InitCommon

NextRace ==
    \/ \E p \in Racers : UploadJson(p)
    \/ \E p \in Racers : ClaimProcessing(p)
    \/ \E p \in Racers : StartExecution(p)
    \/ \E p \in Racers : StartedProcessing(p)
    \/ \E p \in Racers : Except(p)

SpecRace == InitRace /\ [][NextRace]_vars

(***************************************************************************)
(* Vocabulary of the properties.                                           *)
(***************************************************************************)
Batch == payloads[Orch]

\* the calls invocation p issued for its k-th payload, in order
CallsAt(p, k) == SelectSeq(calls[p], LAMBDA c : c.at = k)

OpsAt(p, k) == [n \in 1..Len(CallsAt(p, k)) |-> CallsAt(p, k)[n].op]

\* invocation p called op for its k-th payload, and the call ended with r
Called(p, k, op, r) ==
    \E n \in 1..Len(CallsAt(p, k)) :
        CallsAt(p, k)[n].op = op /\ CallsAt(p, k)[n].r = r

Issued(p, k, op) == \E n \in 1..Len(CallsAt(p, k)) : CallsAt(p, k)[n].op = op

\* process() has dealt with its k-th payload
Dealt(k) == k < i[Orch] \/ (k = i[Orch] /\ pc[Orch] = "done")

\* the k-th payload is the first of its identity in the input
First(k) == \A j \in 1..(k - 1) : Batch[j].id # Batch[k].id

Count(seq, x) == Cardinality({n \in 1..Len(seq) : seq[n] = x})

\* no call made for the k-th payload failed for a reason other than the
\* claim's conditional check
NoFault(p, k) ==
    \A n \in 1..Len(CallsAt(p, k)) :
        CallsAt(p, k)[n].r \in {Ok, ConditionalCheckFailed}

Retryable == {"FAILED", "ABORTED", None}

\* the k-th payload is to replace: its step says so, or the call does
ReplaceSet(k) == replace \/ Batch[k].replace

(***************************************************************************)
(* C1. In one process() call no identity is launched more than once: an    *)
(* occurrence of an identity that is already in started, skipped or failed *)
(* (every occurrence after the first) is added to dropped, the only call   *)
(* issued for it is the duplication event, and upload_json,                *)
(* claim_processing and start_execution are each called at most once for   *)
(* an identity, whatever its stored state or replace flag.                 *)
(***************************************************************************)
C1_DuplicatesAreDropped ==
    \A k \in 1..Len(Batch) :
        LET id == Batch[k].id IN
        /\ (Dealt(k) /\ ~First(k)) => OpsAt(Orch, k) = <<"duplicated">>
        /\ Count(payload_ids.dropped, id) =
              Cardinality({j \in 1..Len(Batch) :
                              Batch[j].id = id /\ j < i[Orch] /\ ~First(j)})
        /\ \A op \in {"upload_json", "claim_processing", "start_execution"} :
              Cardinality({n \in 1..Len(calls[Orch]) :
                              calls[Orch][n].op = op /\ calls[Orch][n].id = id}) <= 1
        /\ executions[id] <= 1

\* a second occurrence with the replace flag set and a FAILED record, whose
\* identity failed terminally before, has been dropped
C1_Witness ==
    \E k \in 1..Len(Batch) :
        /\ Dealt(k) /\ ~First(k)
        /\ Batch[k].replace
        /\ states[Batch[k].id] = "FAILED"
        /\ Batch[k].id \in Range(payload_ids.failed)
        /\ Batch[k].id \in Range(payload_ids.dropped)

(***************************************************************************)
(* C2. Two invocations launch payloads of one identity concurrently, and   *)
(* no call fails for a reason other than the conditional check: when both  *)
(* are over, if the record was not in flight exactly one launch returned   *)
(* the identity and the other returned None, and the engine started one    *)
(* execution; no launch raised. (If the record was in flight already, both *)
(* return None and nothing is started.) While no call has failed, the      *)
(* engine never starts a second execution.                                 *)
(***************************************************************************)
RaceId == payloads[1][1].id

C2_AtMostOnceUnderRace ==
    (\A p \in Racers : NoFault(p, 1)) =>
        /\ executions[RaceId] <= 1
        /\ (\A p \in Racers : pc[p] = "done") =>
              /\ \A p \in Racers : result[p] \in {"id", "None"}
              /\ IF \E p \in Racers : ~InFlight(seen[p][1])
                 THEN /\ Cardinality({p \in Racers : result[p] = "id"}) = 1
                      /\ Cardinality({p \in Racers : result[p] = "None"}) = 1
                      /\ executions[RaceId] = 1
                 ELSE /\ \A p \in Racers : result[p] = "None"
                      /\ executions[RaceId] = 0

\* both launches are over, one started the execution and the other lost
\* the conditional check after the winner's claim
C2_Witness ==
    /\ \A p \in Racers : pc[p] = "done" /\ NoFault(p, 1)
    /\ result[1] = "None" /\ result[2] = "id"
    /\ seen[1][1] = "CLAIMED"
    /\ executions[RaceId] = 1

(***************************************************************************)
(* C3. Whenever a call of __call__ (upload_json, claim_processing,         *)
(* start_execution, started_processing) fails for a reason other than the  *)
(* conditional check, wfem.failed has been called for the identity by the  *)
(* time the exception has left __call__.                                   *)
(***************************************************************************)
C3_FailureRecordedBeforeRaise ==
    \A k \in 1..Len(Batch) :
        (Dealt(k) /\ ~NoFault(Orch, k)) => Issued(Orch, k, "failed")

(***************************************************************************)
(* C4. __call__ raises TerminalError if and only if start_execution        *)
(* reported StateMachineDoesNotExist, and then wfem.failed was called and  *)
(* the record set to FAILED first; every other failure leaves __call__ as  *)
(* the error it was. process() files the identity of a terminal failure in *)
(* failed and goes on with the rest of the input; it never raises          *)
(* TerminalError itself.                                                   *)
(***************************************************************************)
C4_Inv ==
    /\ \A k \in 1..Len(Batch) :
          LET id == Batch[k].id
              terminal == Called(Orch, k, "start_execution", StateMachineDoesNotExist)
          IN  Dealt(k) =>
                /\ terminal =>
                      /\ OpsAt(Orch, k)[Len(OpsAt(Orch, k))] = "failed"
                      /\ id \in Range(payload_ids.failed)
                      /\ k < i[Orch]
                /\ (First(k) /\ id \in Range(payload_ids.failed)) => terminal
                /\ \A e \in {OtherClientError, OtherException} :
                      (\E op \in {"upload_json", "claim_processing",
                                  "start_execution", "started_processing"} :
                            Called(Orch, k, op, e)) =>
                         /\ result[Orch] = e
                         /\ k = i[Orch]
                         /\ id \notin Range(payload_ids.failed)
    /\ result[Orch] \in {"running", "returned", OtherClientError, OtherException}
    /\ result[Orch] = "returned" => i[Orch] = Len(Batch) + 1

C4_Step ==
    (/\ pc[Orch] = "except"
     /\ exc[Orch] = StateMachineDoesNotExist
     /\ pc'[Orch] # "except") =>
        /\ statedb'[Batch[i[Orch]].id] = "FAILED"
        /\ pc'[Orch] = "loop"

C4_TerminalIsDistinct == []C4_Inv /\ [][C4_Step]_vars

\* process() returned although an earlier payload failed terminally, and a
\* payload after it was started
C4_Witness ==
    /\ result[Orch] = "returned"
    /\ \E k \in 1..Len(Batch) :
          /\ Called(Orch, k, "start_execution", StateMachineDoesNotExist)
          /\ \E j \in (k + 1)..Len(Batch) : Batch[j].id \in Range(payload_ids.started)

(***************************************************************************)
(* C5. When claim_processing fails its conditional check, __call__ calls   *)
(* wfem.skipping and nothing else (no wfem.failed, no start_execution),    *)
(* returns None without raising, so that process() files the identity in   *)
(* skipped and goes on, and the handler leaves the record and the engine   *)
(* as they were.                                                           *)
(***************************************************************************)
C5_Inv ==
    \A k \in 1..Len(Batch) :
        (Dealt(k) /\ Called(Orch, k, "claim_processing", ConditionalCheckFailed)) =>
            /\ OpsAt(Orch, k) = <<"upload_json", "claim_processing", "skipping">>
            /\ Batch[k].id \in Range(payload_ids.skipped)
            /\ k < i[Orch]

C5_Step ==
    (/\ pc[Orch] = "except"
     /\ exc[Orch] = ConditionalCheckFailed
     /\ pc'[Orch] # "except") =>
        /\ statedb' = statedb
        /\ executions' = executions
        /\ pc'[Orch] = "loop"
        /\ result'[Orch] = "running"

C5_ConditionalFailureIsASkip == []C5_Inv /\ [][C5_Step]_vars

\* a launch lost the conditional check on a record another invocation
\* claimed after the states were fetched
C5_Witness ==
    \E k \in 1..Len(Batch) :
        /\ Dealt(k)
        /\ Called(Orch, k, "claim_processing", ConditionalCheckFailed)
        /\ states[Batch[k].id] = "FAILED"
        /\ seen[Orch][k] = "CLAIMED"

(***************************************************************************)
(* C6. The first occurrence of a payload whose record is FAILED, ABORTED   *)
(* or absent is retried: process() calls it (upload_json is issued for     *)
(* it) instead of skipping it on its state, and, the record being still    *)
(* out of flight when the claim acts on it, its identity is not filed in   *)
(* skipped; when process() returns it is in started or in failed.          *)
(***************************************************************************)
C6_FailedIsRetried ==
    \A k \in 1..Len(Batch) :
        LET id == Batch[k].id IN
        (Dealt(k) /\ First(k) /\ states[id] \in Retryable) =>
            /\ Issued(Orch, k, "upload_json")
            /\ Issued(Orch, k, "skipping") =>
                  Called(Orch, k, "claim_processing", ConditionalCheckFailed)
            /\ ~InFlight(seen[Orch][k]) =>
                  /\ id \notin Range(payload_ids.skipped)
                  /\ result[Orch] = "returned" =>
                        \/ id \in Range(payload_ids.started)
                        \/ id \in Range(payload_ids.failed)

\* process() returned after it retried a payload whose record was FAILED
\* and a payload whose record was absent: one started, one failed again
C6_Witness ==
    /\ result[Orch] = "returned"
    /\ \E k, j \in 1..Len(Batch) :
          /\ states[Batch[k].id] = "FAILED" /\ seen[Orch][k] = "FAILED"
          /\ ~Batch[k].replace /\ ~replace
          /\ Batch[k].id \in Range(payload_ids.started)
          /\ seen[Orch][j] = None
          /\ Batch[j].id \in Range(payload_ids.failed)

(***************************************************************************)
(* C7 as stated. A first occurrence with the replace flag set (its own or  *)
(* the call's) has its execution started whatever the stored state is,     *)
(* PROCESSING and CLAIMED included (no call failing for another reason).   *)
(***************************************************************************)
C7_ReplaceAlwaysStarts ==
    \A k \in 1..Len(Batch) :
        (Dealt(k) /\ First(k) /\ ReplaceSet(k) /\ NoFault(Orch, k)) =>
            /\ Called(Orch, k, "start_execution", Ok)
            /\ Batch[k].id \in Range(payload_ids.started)

(***************************************************************************)
(* C7 as amended. A first occurrence with the replace flag set is launched *)
(* whatever the fetched state is (it is never skipped on its state). No    *)
(* call failing for another reason: if the record is not PROCESSING or     *)
(* CLAIMED when the claim acts, the execution is started and the identity  *)
(* filed in started; if it is, the claim fails its conditional check, no   *)
(* execution is started and the identity is filed in skipped.              *)
(***************************************************************************)
C7_ReplaceLaunchesUnlessInFlight ==
    \A k \in 1..Len(Batch) :
        LET id == Batch[k].id IN
        (Dealt(k) /\ First(k) /\ ReplaceSet(k)) =>
            /\ Issued(Orch, k, "upload_json")
            /\ NoFault(Orch, k) =>
                  IF InFlight(seen[Orch][k])
                  THEN /\ ~Issued(Orch, k, "start_execution")
                       /\ id \in Range(payload_ids.skipped)
                  ELSE /\ Called(Orch, k, "start_execution", Ok)
                       /\ id \in Range(payload_ids.started)

\* with replace set, a COMPLETED record was started again and a PROCESSING
\* record was launched and skipped by the claim
C7_Witness ==
    \E k, j \in 1..Len(Batch) :
        /\ Dealt(k) /\ Dealt(j)
        /\ ReplaceSet(k) /\ ReplaceSet(j)
        /\ states[Batch[k].id] = "COMPLETED"
        /\ Batch[k].id \in Range(payload_ids.started)
        /\ states[Batch[j].id] = "PROCESSING"
        /\ Called(Orch, j, "claim_processing", ConditionalCheckFailed)
        /\ Batch[j].id \in Range(payload_ids.skipped)

(***************************************************************************)
(* C8 as stated. No identity is in more than one of started, skipped,      *)
(* dropped and failed.                                                     *)
(***************************************************************************)
C8_FourDisjointLists ==
    \A m, n \in {"started", "skipped", "dropped", "failed"} :
        m # n => Range(payload_ids[m]) \cap Range(payload_ids[n]) = {}

(***************************************************************************)
(* C8 as amended. started, skipped and failed are pairwise disjoint and    *)
(* hold no identity twice; every identity in dropped is the identity of a  *)
(* duplicate and is in exactly one of started, skipped and failed too.     *)
(***************************************************************************)
C8_ThreeDisjointListsAndDropped ==
    /\ \A m, n \in {"started", "skipped", "failed"} :
          m # n => Range(payload_ids[m]) \cap Range(payload_ids[n]) = {}
    /\ \A m \in {"started", "skipped", "failed"} :
          \A id \in Ids : Count(payload_ids[m], id) <= 1
    /\ \A id \in Range(payload_ids.dropped) :
          Cardinality({m \in {"started", "skipped", "failed"} :
                          id \in Range(payload_ids[m])}) = 1

\* process() returned an identity in started and in dropped
C8_Witness ==
    /\ result[Orch] = "returned"
    /\ \E id \in Ids :
          /\ id \in Range(payload_ids.started)
          /\ id \in Range(payload_ids.dropped)

(***************************************************************************)
(* The objects of a payload. A ProcessPayload is a dict whose items and    *)
(* attributes refer to lists and dicts; heap holds one cell per object,    *)
(* a cell's refs being the addresses of the objects it refers to:          *)
(*   payload: v.id, refs = <<self["process"], self["features"],            *)
(*                           self.process, self.features, self.tasks>>     *)
(*   list:    refs = its elements                                          *)
(*   step:    a dict of plain values, v, refs = <<its "tasks">>            *)
(*   feature, tasks: a dict of plain values, v                             *)
(***************************************************************************)
NoId == "(no id)"
NoFilter == "(no chain_filter)"
NoValue == [none |-> TRUE]
Collections == {"c1", "c2"}

\* the names that tell the steps and the features of a payload apart
TopNames == <<"w1", "w2", "w3", "w4", "w5">>
EntryNames == <<"w2a", "w2b", "w2c", "w2d">>
FeatureIds == <<"f1", "f2", "f3", "f4">>
FeatureCollections == <<"c1", "c2", "c1", "c2">>

TasksValue == [t |-> "tasks", v |-> NoValue, refs |-> <<>>]

StepValue(name, filter) ==
    [t |-> "step",
     v |-> [workflow |-> name, replace |-> FALSE, chain_filter |-> filter],
     refs |-> <<TasksValue>>]

FeatureValue(n) ==
    [t |-> "feature",
     v |-> [id |-> FeatureIds[n], collection |-> FeatureCollections[n],
            links |-> FALSE],
     refs |-> <<>>]

ListValue(elements) == [t |-> "list", v |-> NoValue, refs |-> elements]

\* the objects of a value, put on heap h: [h: the heap, at: the address]
RECURSIVE Alloc(_, _), AllocAll(_, _, _)
Alloc(h, value) ==
    LET kids == AllocAll(h, value.refs, <<>>)
    IN  [h |-> Append(kids.h, [t |-> value.t, v |-> value.v, refs |-> kids.ats]),
         at |-> Len(kids.h) + 1]

AllocAll(h, values, ats) ==
    IF values = <<>> THEN [h |-> h, ats |-> ats]
    ELSE LET a == Alloc(h, Head(values))
         IN  AllocAll(a.h, Tail(values), Append(ats, a.at))

\* the value of the object at address a
RECURSIVE View(_, _)
View(h, a) ==
    [t |-> h[a].t, v |-> h[a].v,
     refs |-> [k \in 1..Len(h[a].refs) |-> View(h, h[a].refs[k])]]

\* the items of the payload at address a: its id, process and features
Items(h, a) ==
    [id |-> h[a].v.id,
     process |-> View(h, h[a].refs[1]),
     features |-> View(h, h[a].refs[2])]

\* ProcessPayload(...): self.process = self["process"][0],
\* self.features = self.get("features", []) and
\* self.tasks = self.process["tasks"] refer to objects of the items
NewProcessPayload(id, process, features) ==
    LET p == Alloc(<<>>, process)
        f == Alloc(p.h, features)
        first == f.h[p.at].refs[1]
    IN  Append(f.h, [t |-> "payload", v |-> [id |-> id],
                     refs |-> <<p.at, f.at, first, f.at, f.h[first].refs[1]>>])

\* copy.deepcopy: the copy of the object at a and of all it refers to, an
\* object referred to twice being copied once (memo: address -> its copy)
RECURSIVE DeepCopy(_, _, _), DeepCopyAll(_, _, _, _)
DeepCopy(h, memo, a) ==
    IF memo[a] # 0 THEN [h |-> h, memo |-> memo, at |-> memo[a]]
    ELSE LET n == Len(h) + 1
             r == DeepCopyAll(Append(h, h[a]), [memo EXCEPT ![a] = n],
                              h[a].refs, <<>>)
         IN  [h |-> [r.h EXCEPT ![n].refs = r.ats], memo |-> r.memo, at |-> n]

DeepCopyAll(h, memo, refs, ats) ==
    IF refs = <<>> THEN [h |-> h, memo |-> memo, ats |-> ats]
    ELSE LET c == DeepCopy(h, memo, Head(refs))
         IN  DeepCopyAll(c.h, c.memo, Tail(refs), Append(ats, c.at))

(***************************************************************************)
(* ProcessPayload.next_payloads.                                           *)
(***************************************************************************)
\* self["process"]
ProcessOf(h, p) == h[h[p].refs[1]].refs

\* next_processes: the second step, or its entries if it is a sequence
NextProcesses(h, p) ==
    IF h[ProcessOf(h, p)[2]].t = "step"
    THEN <<ProcessOf(h, p)[2]>>
    ELSE h[ProcessOf(h, p)[2]].refs

\* del new["id"]
DelId(h, new) == [h EXCEPT ![new].v.id = NoId]

\* (a variant of PopFirst: the last step is popped)
PopLast(h, new) ==
    [h EXCEPT ![h[new].refs[1]].refs = SubSeq(@, 1, Len(@) - 1)]

\* new["process"].pop(0)
PopFirst(h, new) == [h EXCEPT ![h[new].refs[1]].refs = Tail(@)]

\* new["process"][0] = process
SetFirst(h, new, process) == [h EXCEPT ![h[new].refs[1]].refs[1] = process]

\* (a variant of Matches: the features the filter does not match)
MatchesOthers(h, new, filter) ==
    SelectSeq(h[h[new].refs[2]].refs, LAMBDA f : h[f].v.collection # filter)

\* the features of new that match the filter, in order
Matches(h, new, filter) ==
    SelectSeq(h[h[new].refs[2]].refs, LAMBDA f : h[f].v.collection = filter)

\* if "chain_filter" in process: new["features"] = [the matches in new]
ChainFilter(h, new, process) ==
    IF h[process].v.chain_filter = NoFilter THEN h
    ELSE [Append(h, ListValue(Matches(h, new, h[process].v.chain_filter)))
            EXCEPT ![new].refs[2] = Len(h) + 1]

\* one round of the loop: the payload made for the entry `process`
Successor(h, p, process) ==
    LET c == DeepCopy(h, [a \in 1..Len(h) |-> 0], p)
        h1 == DelId(c.h, c.at)
        h2 == PopFirst(h1, c.at)
        h3 == SetFirst(h2, c.at, process)
    IN  [h |-> ChainFilter(h3, c.at, process), at |-> c.at]

\* the generator is resumed and yields the next payload
NextPayloadsYield ==
    /\ gen.pc = "running"
    /\ Len(ProcessOf(heap, self)) > 1
    /\ gen.k <= Len(NextProcesses(heap, self))
    /\ LET new == Successor(heap, self, NextProcesses(heap, self)[gen.k])
       IN  /\ heap' = new.h
           /\ yielded' = Append(yielded, new.at)
           /\ yielded0' = Append(yielded0, Items(new.h, new.at))
    /\ gen' = [gen EXCEPT !.k = @ + 1]
    /\ UNCHANGED <<self, self0, changed>>
    /\ UNCHANGED offChain

\* the generator is resumed and ends: there is no second step, or no entry
\* of it is left
NextPayloadsStop ==
    /\ gen.pc = "running"
    /\ \/ Len(ProcessOf(heap, self)) <= 1
       \/ /\ Len(ProcessOf(heap, self)) > 1
          /\ gen.k > Len(NextProcesses(heap, self))
    /\ gen' = [gen EXCEPT !.pc = "done"]
    /\ UNCHANGED <<heap, self, yielded, self0, yielded0, changed>>
    /\ UNCHANGED offChain

(***************************************************************************)
(* The consumer of the generator changes a payload it was given, once.     *)
(***************************************************************************)
\* payload["process"][j]["replace"] = True
SetStepKey ==
    /\ changed = {}
    /\ \E n \in 1..Len(yielded) : \E j \in 1..Len(ProcessOf(heap, yielded[n])) :
          /\ heap' = [heap EXCEPT ![ProcessOf(heap, yielded[n])[j]].v.replace = TRUE]
          /\ changed' = {n}
    /\ UNCHANGED <<self, gen, yielded, self0, yielded0>>
    /\ UNCHANGED offChain

\* payload["process"].pop()
PopProcess ==
    /\ changed = {}
    /\ \E n \in 1..Len(yielded) :
          /\ ProcessOf(heap, yielded[n]) # <<>>
          /\ heap' = [heap EXCEPT ![heap[yielded[n]].refs[1]].refs =
                                      SubSeq(@, 1, Len(@) - 1)]
          /\ changed' = {n}
    /\ UNCHANGED <<self, gen, yielded, self0, yielded0>>
    /\ UNCHANGED offChain

\* payload["features"][j]["links"] = [...]
SetFeatureKey ==
    /\ changed = {}
    /\ \E n \in 1..Len(yielded) :
       \E j \in 1..Len(heap[heap[yielded[n]].refs[2]].refs) :
          /\ heap' = [heap EXCEPT
                         ![heap[heap[yielded[n]].refs[2]].refs[j]].v.links = TRUE]
          /\ changed' = {n}
    /\ UNCHANGED <<self, gen, yielded, self0, yielded0>>
    /\ UNCHANGED offChain

\* payload["features"].pop()
PopFeatures ==
    /\ changed = {}
    /\ \E n \in 1..Len(yielded) :
          /\ heap[heap[yielded[n]].refs[2]].refs # <<>>
          /\ heap' = [heap EXCEPT ![heap[yielded[n]].refs[2]].refs =
                                      SubSeq(@, 1, Len(@) - 1)]
          /\ changed' = {n}
    /\ UNCHANGED <<self, gen, yielded, self0, yielded0>>
    /\ UNCHANGED offChain

(***************************************************************************)
(* SpecChain: next_payloads is called on a payload and its generator is    *)
(* consumed.                                                               *)
(***************************************************************************)
\* the second step: one step, or a sequence of up to MaxFanout steps
SecondSteps ==
    {StepValue(TopNames[2], f) : f \in Collections \cup {NoFilter}}
    \cup {ListValue([k \in 1..n |-> StepValue(EntryNames[k], fs[k])]) :
            <<n, fs>> \in UNION {{<<m, g>> : g \in [1..m -> Collections \cup {NoFilter}]} :
                                    m \in 0..MaxFanout}}

\* the process sequences: a first step, then perhaps a second and others
ProcessValues ==
    {ListValue(<<StepValue(TopNames[1], NoFilter)>>)}
    \cup {ListValue(<<StepValue(TopNames[1], NoFilter), second>>
                    \o [k \in 1..(len - 2) |-> StepValue(TopNames[k + 2], NoFilter)]) :
            <<len, second>> \in (2..MaxSteps) \X SecondSteps}

FeaturesValues == {ListValue([k \in 1..n |-> FeatureValue(k)]) : n \in 0..MaxFeatures}

\* no payload is being launched
NoLaunch ==
    /\ statedb = [id \in Ids |-> None]
    /\ s3blob = [id \in Ids |-> 0]
    /\ executions = [id \in Ids |-> 0]
    /\ payloads = [p \in Procs |-> <<>>]
    /\ replace = FALSE
    /\ states = [id \in Ids |-> None]
    /\ i = [p \in Procs |-> 1]
    /\ pc = [p \in Procs |-> "idle"]
    /\ exc = [p \in Procs |-> Ok]
    /\ payload_ids = [started |-> <<>>, skipped |-> <<>>, dropped |-> <<>>,
                      failed |-> <<>>]
    /\ result = [p \in Procs |-> "running"]
    /\ calls = [p \in Procs |-> <<>>]
    /\ seen = [p \in Procs |-> <<>>]
    /\ conditional = {}
    /\ earlier = <<>>

InitChain ==
    /\ \E process \in ProcessValues, features \in FeaturesValues :
          heap = NewProcessPayload("a", process, features)
    /\ self = Len(heap)
    /\ gen = [pc |-> "running", k |-> 1]
    /\ yielded = <<>>
    /\ self0 = Items(heap, self)
    /\ yielded0 = <<>>
    /\ changed = {}
    /\ NoLaunch
    /\ NoBuild
    /\ NoBatch

NextChain ==
    \/ NextPayloadsYield
    \/ NextPayloadsStop
    \/ SetStepKey
    \/ PopProcess
    \/ SetFeatureKey
    \/ PopFeatures

SpecChain == InitChain /\ [][NextChain]_vars

(***************************************************************************)
(* C9. next_payloads yields nothing for a process sequence of length 1.    *)
(* For length L >= 2 it yields, in order, one payload per entry of the     *)
(* second step (one if the second step is a single step, none if it is an  *)
(* empty sequence), each without id and with a process sequence of length  *)
(* L - 1 >= 1: the entry, then the parent's steps from the third on.       *)
(***************************************************************************)
\* the entries of the second step of the payload next_payloads was called on
Entries0 ==
    IF Len(self0.process.refs) < 2 THEN <<>>
    ELSE IF self0.process.refs[2].t = "step" THEN <<self0.process.refs[2]>>
    ELSE self0.process.refs[2].refs

C9_OneSuccessorPerEntry ==
    /\ Len(self0.process.refs) = 1 => yielded = <<>>
    /\ Len(yielded) <= Len(Entries0)
    /\ gen.pc = "done" => Len(yielded) = Len(Entries0)
    /\ \A n \in 1..Len(yielded) :
          /\ yielded0[n].id = NoId
          /\ yielded0[n].process.refs =
                <<Entries0[n]>> \o SubSeq(self0.process.refs, 3, Len(self0.process.refs))
          /\ Len(yielded0[n].process.refs) = Len(self0.process.refs) - 1
          /\ yielded0[n].process.refs # <<>>

\* the generator of a payload of three steps, the second a sequence of two
\* entries, has ended after two payloads
C9_Witness ==
    /\ gen.pc = "done"
    /\ Len(self0.process.refs) = 3
    /\ self0.process.refs[2].t = "list"
    /\ Len(yielded) = 2

(***************************************************************************)
(* C10. Spawning successors leaves the payload it is called on as it was   *)
(* (its id, process and features), and a later change to the process or    *)
(* the features of one yielded payload changes neither the payload         *)
(* next_payloads was called on nor any other yielded payload.              *)
(***************************************************************************)
C10_SuccessorsAreIndependent ==
    /\ Items(heap, self) = self0
    /\ \A n \in 1..Len(yielded) :
          n \notin changed => Items(heap, yielded[n]) = yielded0[n]

(***************************************************************************)
(* C11. A payload yielded for an entry that has a chain_filter carries     *)
(* exactly the features of the payload next_payloads was called on that    *)
(* match the filter, in their order, whatever the filters of the entries   *)
(* before it kept; if none matches its features are the empty list; a      *)
(* payload yielded for an entry without chain_filter carries all the       *)
(* features.                                                               *)
(***************************************************************************)
C11_ChainFilterKeepsMatches ==
    \A n \in 1..Len(yielded) :
        LET filter == Entries0[n].v.chain_filter IN
        /\ yielded0[n].features.t = "list"
        /\ yielded0[n].features.refs =
              IF filter = NoFilter THEN self0.features.refs
              ELSE SelectSeq(self0.features.refs,
                             LAMBDA f : f.v.collection = filter)

\* of three features the first entry's filter kept the first and the
\* third, and the second entry's filter kept the second
C11_Witness ==
    /\ Len(yielded) = 2
    /\ Len(self0.features.refs) = 3
    /\ yielded0[1].features.refs = <<self0.features.refs[1], self0.features.refs[3]>>
    /\ yielded0[2].features.refs = <<self0.features.refs[2]>>

(***************************************************************************)
(* Strings. A str is the sequence of its characters; sorted() orders       *)
(* strings by the code points of their characters.                         *)
(***************************************************************************)
\* the item or key is not there
Absent == <<"(absent)">>

WorkflowDash == <<"w", "o", "r", "k", "f", "l", "o", "w", "-">>
NoneStr == <<"n", "o", "n", "e">>
Slash == <<"/">>

\* ord(c)
CodePoint(c) ==
    CASE c = "-" -> 45 [] c = "/" -> 47 [] c = "a" -> 97 [] c = "b" -> 98
      [] c = "e" -> 101 [] c = "f" -> 102 [] c = "k" -> 107 [] c = "l" -> 108
      [] c = "n" -> 110 [] c = "o" -> 111 [] c = "r" -> 114 [] c = "w" -> 119

\* s < t
RECURSIVE StrLess(_, _)
StrLess(s, t) ==
    IF t = <<>> THEN FALSE
    ELSE IF s = <<>> THEN TRUE
    ELSE IF Head(s) = Head(t) THEN StrLess(Tail(s), Tail(t))
    ELSE CodePoint(Head(s)) < CodePoint(Head(t))

\* the sorted list with x put in
RECURSIVE Insert(_, _)
Insert(x, seq) ==
    IF seq = <<>> THEN <<x>>
    ELSE IF StrLess(x, Head(seq)) THEN <<x>> \o seq
    ELSE <<Head(seq)>> \o Insert(x, Tail(seq))

\* (a variant of Sorted: the list is left in the order it has)
Unsorted(seq) == seq

\* sorted(seq)
RECURSIVE Sorted(_)
Sorted(seq) == IF seq = <<>> THEN <<>> ELSE Insert(Head(seq), Sorted(Tail(seq)))

\* sep.join(seq)
RECURSIVE Join(_, _)
Join(sep, seq) ==
    IF seq = <<>> THEN <<>>
    ELSE IF Len(seq) = 1 THEN seq[1]
    ELSE seq[1] \o sep \o Join(sep, Tail(seq))

\* sub in s
Contains(sub, s) ==
    \E k \in 0..(Len(s) - Len(sub)) : SubSeq(s, k + 1, k + Len(sub)) = sub

\* the elements of a set, as a list in some order
RECURSIVE Listed(_)
Listed(S) ==
    IF S = {} THEN <<>>
    ELSE LET x == CHOOSE y \in S : TRUE IN <<x>> \o Listed(S \ {x})

(***************************************************************************)
(* ProcessPayload.set_id.                                                  *)
(***************************************************************************)
\* the identity set_id makes of the active step and the features
DerivedId(step, features) ==
    LET cols == Sorted(Listed({features[k].collection : k \in
                    {j \in 1..Len(features) : features[j].collection # Absent}}))
        collections_str ==
            IF step.collections # Absent THEN step.collections
            ELSE IF Len(cols) # 0 THEN Join(Slash, cols) ELSE NoneStr
        items_str == Join(Slash, Sorted([k \in 1..Len(features) |-> features[k].id]))
    IN  collections_str \o Slash \o WorkflowDash \o step.workflow \o Slash \o items_str

\* set_id on a payload with items p, active step `step` and features
\* `features` (self.process and self.features): the items after it, or the
\* exception it raises
SetId(p, step, features) ==
    IF p.id # Absent THEN [raised |-> Ok, p |-> p]
    ELSE IF features = <<>> THEN [raised |-> "ValueError", p |-> p]
    ELSE IF step.workflow = Absent THEN [raised |-> "KeyError", p |-> p]
    ELSE [raised |-> Ok, p |-> [p EXCEPT !.id = DerivedId(step, features)]]

(***************************************************************************)
(* ProcessPayload.__init__.                                                *)
(***************************************************************************)
\* self.get("features", [])
FeaturesOf(p) == IF p.features.kind = "missing" THEN <<>> ELSE p.features.items

\* for item in self.features: if "links" not in item: item["links"] = []
WithLinks(p) ==
    IF p.features.kind = "missing" THEN p
    ELSE [p EXCEPT !.features.items =
             [k \in 1..Len(@) |-> [@[k] EXCEPT !.links = TRUE]]]

\* the checks made after the id is set, if it is to be
InitChecks(p) ==
    LET step == p.process.steps[1] IN
    IF ~step.upload_options THEN [raised |-> "ValueError", p |-> p]
    ELSE IF step.workflow = Absent THEN [raised |-> "ValueError", p |-> p]
    ELSE IF ~step.tasks THEN [raised |-> "ValueError", p |-> p]
    ELSE IF p.id = Absent THEN [raised |-> "KeyError", p |-> p]
    ELSE IF ~Contains(WorkflowDash, p.id) THEN [raised |-> "ValueError", p |-> p]
    ELSE [raised |-> Ok, p |-> WithLinks(p)]

\* ProcessPayload(p, set_id_if_missing=flag): the items of the payload, or
\* the exception raised
NewPayload(p, flag) ==
    IF p.process.kind = "missing" THEN [raised |-> "ValueError", p |-> p]
    ELSE IF p.process.kind # "list" \/ Len(p.process.steps) = 0
    THEN [raised |-> "TypeError", p |-> p]
    ELSE IF p.id = Absent /\ flag
    THEN LET r == SetId(p, p.process.steps[1], FeaturesOf(p))
         IN  IF r.raised # Ok THEN r ELSE InitChecks(r.p)
    ELSE InitChecks(p)

(***************************************************************************)
(* ProcessPayload.get_payload and ProcessPayload.upload_to_s3.             *)
(***************************************************************************)
MAX_PAYLOAD_LENGTH == 250000

\* the payload has no "url" item
NoUrl == [bucket |-> "", key |-> 0]

\* upload_to_s3(payload, bucket), the call to upload_json ending with r: the
\* url returned and the uploads made, or the exception raised
UploadToS3(p, bucket, uploads, r) ==
    IF p.url # NoUrl THEN [raised |-> Ok, url |-> p.url, blobs |-> uploads]
    ELSE LET url == [bucket |-> bucket, key |-> Len(uploads) + 1]
         IN  IF r = Ok
             THEN [raised |-> Ok, url |-> url,
                   blobs |-> Append(uploads, [url |-> url, body |-> p])]
             ELSE [raised |-> r, url |-> NoUrl, blobs |-> uploads]

\* (a variant of Inline: a payload of MAX_PAYLOAD_LENGTH bytes is too long)
InlineBelow(payload_length) == payload_length < MAX_PAYLOAD_LENGTH

\* payload_length <= MAX_PAYLOAD_LENGTH
Inline(payload_length) == payload_length <= MAX_PAYLOAD_LENGTH

\* get_payload() on a payload with items p whose encoding has
\* payload_length bytes, CIRRUS_PAYLOAD_BUCKET being payload_bucket
GetPayloadOf(p, payload_length, payload_bucket, uploads, r) ==
    IF Inline(payload_length)
    THEN [raised |-> Ok, got |-> [kind |-> "inline", url |-> NoUrl, items |-> p],
          blobs |-> uploads]
    ELSE IF payload_bucket \in {None, ""}
    THEN [raised |-> "RuntimeError", got |-> [none |-> TRUE], blobs |-> uploads]
    ELSE LET u == UploadToS3(p, payload_bucket, uploads, r)
         IN  [raised |-> u.raised,
              got |-> IF u.raised = Ok
                      THEN [kind |-> "pointer", url |-> u.url, items |-> [none |-> TRUE]]
                      ELSE [none |-> TRUE],
              blobs |-> u.blobs]

(***************************************************************************)
(* SpecBuild: a payload is constructed, and set_id and get_payload are     *)
(* called on it.                                                           *)
(***************************************************************************)
\* the most features of a mapping a payload is constructed from
MaxItems == 2
\* the most calls of set_id made on a payload after its construction
MaxCalls == 2

ProcessPayloadNew ==
    /\ bpc = "new"
    /\ LET r == NewPayload(raw, set_id_if_missing)
       IN  /\ raised' = [raised EXCEPT !["__init__"] = r.raised]
           /\ IF r.raised = Ok
              THEN /\ bpc' = "built"
                   /\ built' = r.p
                   /\ id0' = r.p.id
              ELSE /\ bpc' = "failed"
                   /\ UNCHANGED <<built, id0>>
    /\ UNCHANGED <<raw, set_id_if_missing, set_id_calls, got, env, blobs>>
    /\ UNCHANGED offBuild

\* payload.set_id()
SetIdCall ==
    /\ bpc = "built"
    /\ set_id_calls < MaxCalls
    /\ LET r == SetId(built, built.process.steps[1], FeaturesOf(built))
       IN  /\ raised' = [raised EXCEPT !["set_id"] = r.raised]
           /\ built' = r.p
    /\ set_id_calls' = set_id_calls + 1
    /\ UNCHANGED <<raw, set_id_if_missing, bpc, id0, got, env, blobs>>
    /\ UNCHANGED offBuild

\* payload.get_payload()
GetPayload ==
    /\ bpc = "built"
    /\ env = [none |-> TRUE]
    /\ \E payload_length \in (MAX_PAYLOAD_LENGTH - 1)..(MAX_PAYLOAD_LENGTH + 1),
          payload_bucket \in {None, "", "bucket"},
          r \in {Ok, OtherClientError} :
          LET g == GetPayloadOf(built, payload_length, payload_bucket, blobs, r)
          IN  /\ env' = [payload_length |-> payload_length,
                         payload_bucket |-> payload_bucket, r |-> r]
              /\ raised' = [raised EXCEPT !["get_payload"] = g.raised]
              /\ got' = g.got
              /\ blobs' = g.blobs
    /\ UNCHANGED <<raw, set_id_if_missing, bpc, built, id0, set_id_calls>>
    /\ UNCHANGED offBuild

\* the mappings a payload is constructed from
NameA == <<"a">>
NameB == <<"b">>
NameAB == <<"a", "/", "b">>

FeatureInputs ==
    {[id |-> NameA, collection |-> NameA, links |-> TRUE],
     [id |-> NameB, collection |-> NameB, links |-> FALSE],
     [id |-> NameAB, collection |-> NameAB, links |-> FALSE],
     [id |-> NameA, collection |-> Absent, links |-> FALSE],
     [id |-> NameB, collection |-> NoneStr, links |-> TRUE],
     [id |-> NameB, collection |-> Absent, links |-> TRUE]}

StepInputs ==
    [upload_options : BOOLEAN, workflow : {Absent, <<"w">>}, tasks : BOOLEAN,
     collections : {Absent, NameAB}]

ProcessInputs ==
    {[kind |-> "missing", steps |-> <<>>], [kind |-> "dict", steps |-> <<>>],
     [kind |-> "list", steps |-> <<>>]}
    \cup {[kind |-> "list", steps |-> <<step>>] : step \in StepInputs}

FeaturesInputs ==
    {[kind |-> "missing", items |-> <<>>]}
    \cup {[kind |-> "list", items |-> f] :
            f \in {<<>>} \cup SeqsUpTo(FeatureInputs, MaxItems)}

IdInputs ==
    {Absent,
     NameA \o Slash \o WorkflowDash \o <<"w">> \o Slash \o NameA,
     NameA \o Slash \o <<"w">> \o Slash \o NameA}

UrlInputs == {NoUrl, [bucket |-> "elsewhere", key |-> 0]}

RawInputs ==
    [process : ProcessInputs, id : IdInputs, features : FeaturesInputs,
     url : UrlInputs]

InitBuild ==
    /\ raw \in RawInputs
    /\ set_id_if_missing \in BOOLEAN
    /\ bpc = "new"
    /\ built = [none |-> TRUE]
    /\ raised = [m \in {"__init__", "set_id", "get_payload"} |-> Ok]
    /\ id0 = <<>>
    /\ set_id_calls = 0
    /\ got = [none |-> TRUE]
    /\ env = [none |-> TRUE]
    /\ blobs = <<>>
    /\ NoLaunch
    /\ NoChain
    /\ NoBatch

NextBuild ==
    \/ ProcessPayloadNew
    \/ SetIdCall
    \/ GetPayload

SpecBuild == InitBuild /\ [][NextBuild]_vars

(***************************************************************************)
(* C12. The identity the constructor derives for a mapping without id is   *)
(* the identity derived for every mapping that has the same active step    *)
(* and the same features in another order, and a call of set_id on a       *)
(* payload that has an id raises nothing and leaves the id as it was.      *)
(***************************************************************************)
\* the lists that hold the elements of seq in some order
Reordered(seq) ==
    {[k \in 1..Len(seq) |-> seq[f[k]]] : f \in Permutations(1..Len(seq))}

C12_DerivationIsIdempotent ==
    bpc = "built" =>
        /\ built.id = id0
        /\ raised["set_id"] = Ok
        /\ raw.id = Absent =>
              \A f \in Reordered(FeaturesOf(raw)) :
                 LET other == NewPayload([raw EXCEPT !.features.items = f], TRUE)
                 IN  other.raised = Ok /\ other.p.id = id0

\* the identity was derived from two features whose ids are not in sorted
\* order, and set_id has been called on the payload again
C12_Witness ==
    /\ bpc = "built"
    /\ raw.id = Absent
    /\ Len(FeaturesOf(raw)) = 2
    /\ StrLess(raw.features.items[2].id, raw.features.items[1].id)
    /\ set_id_calls = MaxCalls

(***************************************************************************)
(* C13. Two mappings whose collections (the override, or the set of the    *)
(* features' collections), workflow name and set of feature ids are not    *)
(* all the same never derive the same identity.                            *)
(***************************************************************************)
\* what the identity is to tell apart
Combination(step, features) ==
    [collections |->
        IF step.collections # Absent THEN {step.collections}
        ELSE {features[k].collection : k \in
                 {j \in 1..Len(features) : features[j].collection # Absent}},
     workflow |-> step.workflow,
     items |-> {features[k].id : k \in 1..Len(features)}]

C13_DerivedIdsAreUnique ==
    (bpc = "built" /\ raw.id = Absent) =>
        \A step \in {st \in StepInputs : st.workflow # Absent},
           f \in SeqsUpTo(FeatureInputs, MaxItems) :
              Combination(step, f) #
                 Combination(raw.process.steps[1], FeaturesOf(raw))
              => DerivedId(step, f) # built.id

(***************************************************************************)
(* C14. The constructor raises ValueError or TypeError, and returns no     *)
(* payload, whenever process is missing, is not a list with a first step,  *)
(* or the first step lacks upload_options, workflow or tasks, whatever     *)
(* set_id_if_missing is and whether or not the mapping has an id; a        *)
(* mapping whose id lacks "workflow-" is rejected; every payload it        *)
(* returns has an id that contains "workflow-" and has links in every      *)
(* feature.                                                                *)
(***************************************************************************)
Malformed(p) ==
    \/ p.process.kind # "list"
    \/ Len(p.process.steps) = 0
    \/ ~p.process.steps[1].upload_options
    \/ p.process.steps[1].workflow = Absent
    \/ ~p.process.steps[1].tasks

C14_ConstructValidates ==
    /\ (bpc # "new" /\ Malformed(raw)) =>
          bpc = "failed" /\ raised["__init__"] \in {"ValueError", "TypeError"}
    /\ (bpc # "new" /\ raw.id # Absent /\ ~Contains(WorkflowDash, raw.id)) =>
          bpc = "failed"
    /\ bpc = "built" =>
          /\ Contains(WorkflowDash, built.id)
          /\ \A k \in 1..Len(FeaturesOf(built)) : FeaturesOf(built)[k].links

(***************************************************************************)
(* C15. get_payload returns the items of the payload when the encoding     *)
(* has at most MAX_PAYLOAD_LENGTH bytes, and uploads nothing. When it has  *)
(* more: without a bucket it raises RuntimeError and uploads nothing; with *)
(* a bucket, for a payload that is no pointer itself (it has no url item)  *)
(* and an upload that does not fail, it returns {"url": url}, url being a  *)
(* location in the bucket that holds the items of the payload.             *)
(***************************************************************************)
\* the body the blob store holds at url
Resolve(uploads, url) ==
    LET at == {k \in 1..Len(uploads) : uploads[k].url = url}
    IN  IF at = {} THEN [none |-> TRUE]
        ELSE uploads[CHOOSE k \in at : \A j \in at : j <= k].body

C15_EncodeForTransport ==
    env # [none |-> TRUE] =>
        IF env.payload_length <= 250000
        THEN /\ raised["get_payload"] = Ok
             /\ got.kind = "inline" /\ got.items = built
             /\ blobs = <<>>
        ELSE IF env.payload_bucket \in {None, ""}
        THEN /\ raised["get_payload"] = "RuntimeError"
             /\ got = [none |-> TRUE]
             /\ blobs = <<>>
        ELSE (built.url = NoUrl /\ env.r = Ok) =>
                /\ raised["get_payload"] = Ok
                /\ got.kind = "pointer"
                /\ got.url.bucket = env.payload_bucket
                /\ Resolve(blobs, got.url) = built
                /\ Len(blobs) = 1

\* a payload one byte too long was uploaded and a pointer returned
C15_Witness ==
    /\ env # [none |-> TRUE]
    /\ env.payload_length = 250001
    /\ got # [none |-> TRUE]
    /\ got.kind = "pointer"
    /\ Resolve(blobs, got.url) = built

(***************************************************************************)
(* The Batch Accumulator and the publishers (cirrus.lib.utils:             *)
(* BatchHandler, batch_handler, SQSPublisher, SNSPublisher).               *)
(***************************************************************************)
\* the most Add calls made in one scope
MaxAdds == 4
\* the largest flush threshold of an accumulator
MaxThreshold == 3
\* the most Execute calls the body of a scope makes itself
MaxExecutes == 2

\* the provider's ceiling of attributes per item
MaxAttributes == 10

\* (a variant of TooManyAttributes: eleven attributes are let through)
TooManyAttributesAboveEleven(n) == n > MaxAttributes + 1

\* the Topic Publisher refuses an item with more attributes than the ceiling
TooManyAttributes(n) == n > MaxAttributes

\* (a variant of FlushDue: the buffer has to exceed the threshold)
FlushDueAbove(n, threshold) == n > threshold

\* the size policy: the buffer has reached the threshold
FlushDue(n, threshold) == n >= threshold

\* (a variant of Flushes: an empty buffer is flushed too)
FlushesAlways(items) == TRUE

\* Execute invokes the sink unless the buffer is empty
Flushes(items) == items # <<>>

\* what the sink is invoked with: the fixed extra arguments, and the items
\* under the configured name
SinkCall(h, items) == [params |-> h.params, name |-> h.name, items |-> items]

\* Execute(): the sink's invocations and the flush counts after it
Execute(by) ==
    /\ IF Flushes(buffer)
       THEN /\ sink' = Append(sink, SinkCall(handler, buffer))
            /\ flushes' = [flushes EXCEPT
                              !.explicit = IF by = "execute" THEN @ + 1 ELSE @]
       ELSE /\ sink' = sink
            /\ flushes' = [flushes EXCEPT
                              !.explicit = IF by = "execute" THEN @ + 1 ELSE @,
                              !.empty = @ + 1]
    /\ buffer' = <<>>

\* Add(item), the item carrying n attributes
Add ==
    /\ scope = "open"
    /\ Len(adds) < MaxAdds
    /\ \E n \in IF handler.kind = "topic" THEN {0, MaxAttributes, MaxAttributes + 1}
                ELSE {0} :
          LET item == [item |-> Len(adds) + 1, attributes |-> n]
              added == Append(buffer, item)
          IN  IF handler.kind = "topic" /\ TooManyAttributes(n)
              THEN /\ adds' = Append(adds, [item |-> item, ok |-> FALSE])
                   /\ last_op' = "add raised"
                   /\ UNCHANGED <<buffer, sink>>
              ELSE /\ adds' = Append(adds, [item |-> item, ok |-> TRUE])
                   /\ last_op' = "add"
                   /\ IF handler.kind # "plain" /\ FlushDue(Len(added), handler.threshold)
                      THEN /\ sink' = Append(sink, SinkCall(handler, added))
                           /\ buffer' = <<>>
                      ELSE /\ sink' = sink
                           /\ buffer' = added
    /\ UNCHANGED <<handler, scope, flushes>>
    /\ UNCHANGED offBatch

\* the body of the scope calls Execute()
ExecuteCall ==
    /\ scope = "open"
    /\ flushes.explicit < MaxExecutes
    /\ Execute("execute")
    /\ last_op' = "execute"
    /\ UNCHANGED <<handler, adds, scope>>
    /\ UNCHANGED offBatch

\* the scope is left, by the end of its body or by an exception
ScopeExit ==
    /\ scope = "open"
    /\ Execute("exit")
    /\ scope' = "closed"
    /\ last_op' = "exit"
    /\ UNCHANGED <<handler, adds>>
    /\ UNCHANGED offBatch

\* the accumulators: the plain one, the size-bounded one, the publishers
Handlers ==
    {[kind |-> "plain", threshold |-> 0, params |-> ps, name |-> "batch"] :
        ps \in {{}, {<<"arg", "value">>}}}
    \cup {[kind |-> k, threshold |-> t, params |-> ps, name |-> "batch"] :
            k \in {"sized", "topic"}, t \in 1..MaxThreshold,
            ps \in {{}, {<<"arg", "value">>}}}

InitBatch ==
    /\ handler \in Handlers
    /\ buffer = <<>>
    /\ sink = <<>>
    /\ adds = <<>>
    /\ scope = "open"
    /\ last_op = "none"
    /\ flushes = [explicit |-> 0, empty |-> 0]
    /\ NoLaunch
    /\ NoChain
    /\ NoBuild

NextBatch ==
    \/ Add
    \/ ExecuteCall
    \/ ScopeExit

SpecBatch == InitBatch /\ [][NextBatch]_vars

(***************************************************************************)
(* Vocabulary of the accumulator's properties.                             *)
(***************************************************************************)
\* the items the sink has been passed, batch after batch
RECURSIVE Received(_)
Received(invocations) ==
    IF invocations = <<>> THEN <<>>
    ELSE Head(invocations).items \o Received(Tail(invocations))

\* the items of the Add calls that returned, in order
Accepted ==
    LET ok == SelectSeq(adds, LAMBDA a : a.ok)
    IN  [k \in 1..Len(ok) |-> ok[k].item]

(***************************************************************************)
(* C16. A size-bounded accumulator with threshold T, N items added in one  *)
(* scope whose body calls Execute never: the sink is invoked N div T times *)
(* while the scope is open and ceil(N / T) times once it is left, each     *)
(* time with at most T items, the remainder being flushed once at the      *)
(* exit. Whatever the body does, the batches the sink received followed by *)
(* the buffer are the items added, in order, and after every Add the       *)
(* buffer holds fewer than T items.                                        *)
(***************************************************************************)
C16_SizeBoundedBatches ==
    /\ Received(sink) \o buffer = Accepted
    /\ handler.kind # "plain" =>
          LET T == handler.threshold
              N == Len(Accepted)
          IN  /\ Len(buffer) < T
              /\ \A k \in 1..Len(sink) : Len(sink[k].items) <= T
              /\ flushes.explicit = 0 =>
                    /\ scope = "open" => Len(sink) = N \div T
                    /\ scope = "closed" =>
                          /\ Len(sink) = (N + T - 1) \div T
                          /\ \A k \in 1..(N \div T) : Len(sink[k].items) = T
                          /\ buffer = <<>>

\* four items were added with threshold three and the scope was left: the
\* sink was invoked with three items, and with the remainder at the exit
C16_Witness ==
    /\ handler.kind = "sized" /\ handler.threshold = 3
    /\ scope = "closed" /\ flushes.explicit = 0
    /\ Len(Accepted) = 4
    /\ Len(sink) = 2 /\ Len(sink[2].items) = 1

(***************************************************************************)
(* C17. The sink is never invoked with no items: an Execute that meets an  *)
(* empty buffer, the one at the scope's exit included, does not invoke it, *)
(* and every item is passed to the sink once. Every invocation carries the *)
(* accumulator's fixed extra arguments and the items under the configured  *)
(* name, and after an Execute the buffer is empty.                         *)
(***************************************************************************)
C17_EmptyExecuteIsNoOp ==
    /\ \A k \in 1..Len(sink) :
          /\ sink[k].items # <<>>
          /\ sink[k].params = handler.params
          /\ sink[k].name = handler.name
    /\ Received(sink) \o buffer = Accepted
    /\ last_op \in {"execute", "exit"} => buffer = <<>>
    /\ handler.kind = "plain" =>
          Len(sink) + flushes.empty =
             flushes.explicit + (IF scope = "closed" THEN 1 ELSE 0)

\* the body flushed its item itself and called Execute once more; neither
\* that call nor the exit invoked the sink again
C17_Witness ==
    /\ scope = "closed"
    /\ handler.params # {}
    /\ flushes.explicit = 2 /\ flushes.empty = 2
    /\ Len(sink) = 1

(***************************************************************************)
(* C18. An Add to a Topic Publisher raises if and only if the item has     *)
(* more than 10 attributes; an Add that raises leaves the buffer and the   *)
(* sink's invocations as they were, and its item is never sent. Once the   *)
(* scope is left, every item whose Add returned has been passed to the     *)
(* sink.                                                                   *)
(***************************************************************************)
C18_Inv ==
    handler.kind = "topic" =>
        /\ \A k \in 1..Len(adds) : adds[k].ok <=> adds[k].item.attributes <= 10
        /\ \A k \in 1..Len(adds) :
              ~adds[k].ok =>
                 \A j \in 1..Len(Received(sink) \o buffer) :
                    (Received(sink) \o buffer)[j] # adds[k].item
        /\ scope = "closed" => Received(sink) = Accepted

C18_Step ==
    (handler.kind = "topic" /\ adds' # adds /\ ~adds'[Len(adds')].ok) =>
        buffer' = buffer /\ sink' = sink

C18_AttributeLimit == []C18_Inv /\ [][C18_Step]_vars

\* a scope was left in which an item of 11 attributes was refused and one
\* of 10 attributes, added after it, was sent
C18_Witness ==
    /\ handler.kind = "topic"
    /\ scope = "closed"
    /\ \E k, j \in 1..Len(adds) :
          /\ k < j
          /\ ~adds[k].ok /\ adds[k].item.attributes = 11
          /\ adds[j].ok /\ adds[j].item.attributes = 10
          /\ \E n \in 1..Len(sink) : \E m \in 1..Len(sink[n].items) :
                sink[n].items[m] = adds[j].item

(***************************************************************************)
(* C19. The first occurrence of a payload whose fetched state is not       *)
(* FAILED, ABORTED or absent, the replace flag being set neither for the   *)
(* call nor for its step, is filed in skipped; the one call made for it is *)
(* the skipping event, which is passed the fetched state; upload_json,     *)
(* claim_processing, start_execution and started_processing are not        *)
(* called for it.                                                          *)
(***************************************************************************)
C19_DoneOrInFlightIsSkipped ==
    \A k \in 1..Len(Batch) :
        LET id == Batch[k].id IN
        (Dealt(k) /\ First(k) /\ states[id] \notin Retryable /\ ~ReplaceSet(k)) =>
            /\ Len(CallsAt(Orch, k)) = 1
            /\ CallsAt(Orch, k)[1].op = "skipping"
            /\ CallsAt(Orch, k)[1].state = states[id]
            /\ id \in Range(payload_ids.skipped)
            /\ s3blob[id] = 0 /\ executions[id] = 0

\* process() returned after it skipped a COMPLETED and an INVALID record
C19_Witness ==
    /\ result[Orch] = "returned"
    /\ ~replace
    /\ \E k, j \in 1..Len(Batch) :
          /\ ~Batch[k].replace /\ ~Batch[j].replace
          /\ states[Batch[k].id] = "COMPLETED" /\ states[Batch[j].id] = "INVALID"
          /\ payload_ids.skipped = <<Batch[k].id, Batch[j].id>>
          /\ CallsAt(Orch, j)[1].state = "INVALID"

(***************************************************************************)
(* C20 as stated. upload_json is called only after claim_processing has    *)
(* returned, so a launch that claim_processing ended with a failed         *)
(* conditional check has not written the payload's input.json.             *)
(***************************************************************************)
C20_PersistAfterClaim ==
    \A k \in 1..Len(Batch) :
        /\ Issued(Orch, k, "upload_json") => Called(Orch, k, "claim_processing", Ok)
        /\ Called(Orch, k, "claim_processing", ConditionalCheckFailed) =>
              s3blob[Batch[k].id] = 0

(***************************************************************************)
(* C20 as amended. upload_json is the first call of a launch, and          *)
(* claim_processing is called only after it has returned (the order is     *)
(* upload_json, claim_processing, start_execution, started_processing), so *)
(* a launch that claim_processing ended with a failed conditional check    *)
(* has written the payload's input.json before.                            *)
(***************************************************************************)
C20_PersistBeforeClaim ==
    \A k \in 1..Len(Batch) :
        LET ops == OpsAt(Orch, k)
            order == <<"upload_json", "claim_processing", "start_execution",
                       "started_processing">>
        IN  /\ \A n \in 1..Len(ops) :
                  ops[n] \in Range(order) =>
                     /\ n <= Len(order) /\ ops[n] = order[n]
                     /\ \A m \in 1..(n - 1) : CallsAt(Orch, k)[m].r = Ok
            /\ Called(Orch, k, "claim_processing", ConditionalCheckFailed) =>
                  s3blob[Batch[k].id] = 1

\* a launch met a record another invocation holds in PROCESSING: it was
\* skipped, and the input.json of the identity is the one it wrote
C20_Witness ==
    \E k \in 1..Len(Batch) :
        /\ Dealt(k)
        /\ seen[Orch][k] = "PROCESSING"
        /\ Called(Orch, k, "claim_processing", ConditionalCheckFailed)
        /\ Batch[k].id \in Range(payload_ids.skipped)
        /\ s3blob[Batch[k].id] # 0

(***************************************************************************)
(* A skipped launch has started nothing.                                   *)
(***************************************************************************)
\* the launch of the payload at index k returned None: the handler of
\* __call__ reported the skip, after the launch began with its upload
ReturnedNone(k) ==
    /\ Issued(Orch, k, "upload_json")
    /\ Issued(Orch, k, "skipping")

\* C21: a launch attempt that returns no identity has not started a workflow
\* execution, whichever call of the attempt reported the conditional-check
\* failure (the upload of the input, the claim or the record of the start).
C21_SkippedStartedNothing ==
    \A k \in 1..Len(payloads[Orch]) :
        ReturnedNone(k) => ~Called(Orch, k, "start_execution", Ok)

(***************************************************************************)
(* A transient failure after the claim.                                    *)
(***************************************************************************)
\* in the call log of one process() run, the launch of the payload at index
\* k claimed the identity and then start_execution or started_processing
\* raised e, which __call__ and process() let through
FailedAfterClaim(log, k, e) ==
    /\ e \in Redriven
    /\ \E n \in 1..Len(log) :
          log[n].op = "claim_processing" /\ log[n].at = k /\ log[n].r = Ok
    /\ \E n \in 1..Len(log) :
          /\ log[n].op \in {"start_execution", "started_processing"}
          /\ log[n].at = k
          /\ log[n].r = e

\* C22: a launch that claimed the identity and then failed non-terminally in
\* start_execution or started_processing leaves the record FAILED, and the
\* redrive of the batch, alone on the store, launches that payload again
\* rather than skip it for the state it finds.
C22_TransientFailureIsRetried ==
    /\ (/\ pc[Orch] = "done"
        /\ FailedAfterClaim(calls[Orch], i[Orch], result[Orch]))
          => statedb[Cur(Orch).id] = "FAILED"
    /\ \A n \in 1..Len(earlier) :
          (/\ n = Len(earlier)
           /\ FailedAfterClaim(earlier[n].calls, earlier[n].at,
                               earlier[n].result)
           /\ i[Orch] > earlier[n].at)
            => Issued(Orch, earlier[n].at, "upload_json")

(***************************************************************************)
(* The attributes of a payload and its items.                              *)
(***************************************************************************)
\* the attributes process, tasks and features of the payload at address a
\* are what its items give: the first step, that step's tasks, the features
DerivedFromItems(h, a) ==
    /\ ProcessOf(h, a) # <<>>
    /\ h[a].refs[3] = ProcessOf(h, a)[1]
    /\ h[a].refs[5] = h[ProcessOf(h, a)[1]].refs[1]
    /\ View(h, h[a].refs[4]) = View(h, h[a].refs[2])

\* C23: as constructed and as yielded by next_payloads, a payload's
\* attribute process is the first element of its process sequence, its
\* attribute tasks the tasks of that element, and its attribute features
\* equals its features: the process attribute of a yielded payload is the
\* step being entered.
C23_DerivedFieldsFollowItems ==
    changed = {} =>
        /\ DerivedFromItems(heap, self)
        /\ \A n \in 1..Len(yielded) : DerivedFromItems(heap, yielded[n])

====
